---- MODULE Spec2Model ----
(***************************************************************************)
(* Model of support/nodegraph.rs: NodeGraph<Node, Edge, NodeData>, a       *)
(* HashMap<Node, NodeIndex> layered over petgraph::Graph<NodeData, Edge>.  *)
(* The petgraph structure is modelled as petgraph stores it: a vector of   *)
(* nodes and a vector of edges, every edge threaded on the outgoing list   *)
(* of its source and the incoming list of its target, and swap_remove on   *)
(* removal.  Indices are the 0-based Rust indices.                         *)
(***************************************************************************)
EXTENDS Integers, Sequences, FiniteSets, TLC

VARIABLES graph, index_map, panicked, added

vars == <<graph, index_map, panicked, added>>

(* ---------------------------------------------------------------- bounds *)
MaxNodes == 2
MaxEdges == 2
MaxBuildNodes == 3
MaxBuildEdges == 3
MaxBatch == 2
MaxDagNodes == 4
MaxDagEdges == 4
MaxParallel == 2

(* The caller's value domains: Node (keys), NodeData, Edge payloads.       *)
Keys == {1, 2}
BuildKeys == {1, 2, 3}
DagKeys == {1, 2, 3, 4}
NodeDatas == {"d1", "d2"}
EdgeWeights == {"w1", "w2"}

(* ------------------------------------------------------- result values  *)
None == [tag |-> "None"]
Some(v) == [tag |-> "Some", val |-> v]
Ok == [tag |-> "Ok"]
Err(e) == [tag |-> "Err", val |-> e]
Panic == [tag |-> "Panic"]
Value(v) == [tag |-> "Value", val |-> v]

(* ----------------------------------------------------- petgraph::Graph  *)
\* EdgeIndex::end() / NodeIndex::end(): the largest index value, which no
\* vector position ever has (u32::MAX in the code, the largest TLC integer here)
END == 2147483647

\* Vec indexing with the 0-based Rust index
Get(s, i) == s[i + 1]
InBounds(s, i) == i >= 0 /\ i < Len(s)
SetAt(s, i, v) == [s EXCEPT ![i + 1] = v]

\* Vec::swap_remove: the last element takes the place of the removed one
swap_remove(s, i) ==
    LET n == Len(s)
    IN  IF i = n - 1 THEN SubSeq(s, 1, n - 1)
        ELSE SubSeq(s, 1, i) \o <<s[n]>> \o SubSeq(s, i + 2, n - 1)

\* Graph::new()
graph_new == [nodes |-> <<>>, edges |-> <<>>]

\* Graph::add_node: push the node, its index is the old length
graph_add_node(g, weight) ==
    [g |-> [g EXCEPT !.nodes = Append(@, [weight |-> weight, next |-> <<END, END>>])],
     index |-> Len(g.nodes)]

\* index_twice
index_twice(nodes, a, b) ==
    IF ~InBounds(nodes, a) \/ ~InBounds(nodes, b) THEN "None"
    ELSE IF a = b THEN "One" ELSE "Both"

\* Graph::add_edge past its bounds check: the new edge becomes the head of
\* the outgoing list of a and of the incoming list of b
graph_add_edge(g, a, b, weight) ==
    LET edge_idx == Len(g.edges)
        an == Get(g.nodes, a)
        bn == Get(g.nodes, b)
    IN  IF a = b
        THEN [nodes |-> SetAt(g.nodes, a, [an EXCEPT !.next = <<edge_idx, edge_idx>>]),
              edges |-> Append(g.edges,
                          [weight |-> weight, node |-> <<a, b>>, next |-> an.next])]
        ELSE [nodes |-> SetAt(SetAt(g.nodes, a, [an EXCEPT !.next[1] = edge_idx]),
                              b, [bn EXCEPT !.next[2] = edge_idx]),
              edges |-> Append(g.edges,
                          [weight |-> weight, node |-> <<a, b>>,
                           next |-> <<an.next[1], bn.next[2]>>])]

\* edges_walker_mut in change_edge_links: the edge of the list starting at
\* cur (direction k) whose next[k] is e, END when there is none
RECURSIVE find_pred(_, _, _, _)
find_pred(edges, cur, k, e) ==
    IF ~InBounds(edges, cur) THEN END
    ELSE IF Get(edges, cur).next[k] = e THEN cur
    ELSE find_pred(edges, Get(edges, cur).next[k], k, e)

\* one direction of change_edge_links (k = 1 outgoing, k = 2 incoming)
change_edge_links_dir(g, k, edge_node, e, edge_next) ==
    LET node == Get(g.nodes, edge_node[k])
        fst == node.next[k]
    IN  IF fst = e
        THEN [g EXCEPT !.nodes = SetAt(@, edge_node[k],
                                       [node EXCEPT !.next[k] = edge_next[k]])]
        ELSE LET c == find_pred(g.edges, fst, k, e)
             IN  IF c = END THEN g
                 ELSE [g EXCEPT !.edges =
                         SetAt(@, c, [Get(@, c) EXCEPT !.next[k] = edge_next[k]])]

\* Graph::change_edge_links: replace links to e by edge_next in both lists
change_edge_links(g, edge_node, e, edge_next) ==
    IF ~InBounds(g.nodes, edge_node[1]) THEN g
    ELSE LET g1 == change_edge_links_dir(g, 1, edge_node, e, edge_next)
         IN  IF ~InBounds(g1.nodes, edge_node[2]) THEN g1
             ELSE change_edge_links_dir(g1, 2, edge_node, e, edge_next)

\* Graph::remove_edge_adjust_indices: swap_remove the edge and re-link the
\* edge that was swapped into its place
remove_edge_adjust_indices(g, e) ==
    LET edge == Get(g.edges, e)
        g1 == [g EXCEPT !.edges = swap_remove(@, e)]
    IN  IF ~InBounds(g1.edges, e) THEN [g |-> g1, ret |-> Some(edge.weight)]
        ELSE LET swap == Get(g1.edges, e).node
                 swapped_e == Len(g1.edges)
             IN  [g |-> change_edge_links(g1, swap, swapped_e, <<e, e>>),
                  ret |-> Some(edge.weight)]

\* Graph::remove_edge
graph_remove_edge(g, e) ==
    IF ~InBounds(g.edges, e) THEN [g |-> g, ret |-> None]
    ELSE LET x == Get(g.edges, e)
         IN  remove_edge_adjust_indices(change_edge_links(g, x.node, e, x.next), e)

\* the loop of Graph::remove_node that removes every edge of list k of a
RECURSIVE remove_edges_dir(_, _, _)
remove_edges_dir(g, a, k) ==
    IF Get(g.nodes, a).next[k] = END THEN g
    ELSE remove_edges_dir(graph_remove_edge(g, Get(g.nodes, a).next[k]).g, a, k)

\* the loop of Graph::remove_node that walks list k of the relocated node
\* and rewrites the endpoint to the node's new index
RECURSIVE relabel_edges(_, _, _, _)
relabel_edges(edges, cur, k, new_index) ==
    IF ~InBounds(edges, cur) THEN edges
    ELSE relabel_edges(
             SetAt(edges, cur, [Get(edges, cur) EXCEPT !.node[k] = new_index]),
             Get(edges, cur).next[k], k, new_index)

\* Graph::remove_node: remove the incident edges, swap_remove the node, and
\* renumber the node that moved into its place
graph_remove_node(g, a) ==
    IF ~InBounds(g.nodes, a) THEN [g |-> g, ret |-> None]
    ELSE LET g1 == remove_edges_dir(remove_edges_dir(g, a, 1), a, 2)
             node == Get(g1.nodes, a)
             nodes2 == swap_remove(g1.nodes, a)
         IN  IF ~InBounds(nodes2, a)
             THEN [g |-> [g1 EXCEPT !.nodes = nodes2], ret |-> Some(node.weight)]
             ELSE LET swap_edges == Get(nodes2, a).next
                      edges2 == relabel_edges(
                                    relabel_edges(g1.edges, swap_edges[1], 1, a),
                                    swap_edges[2], 2, a)
                  IN  [g |-> [nodes |-> nodes2, edges |-> edges2],
                       ret |-> Some(node.weight)]

\* Graph::find_edge_directed_from_node: first edge of the outgoing list
\* whose target is b
RECURSIVE find_edge_directed_from_node(_, _, _)
find_edge_directed_from_node(edges, edix, b) ==
    IF ~InBounds(edges, edix) THEN None
    ELSE IF Get(edges, edix).node[2] = b THEN Some(edix)
    ELSE find_edge_directed_from_node(edges, Get(edges, edix).next[1], b)

\* Graph::find_edge (directed)
graph_find_edge(g, a, b) ==
    IF ~InBounds(g.nodes, a) THEN None
    ELSE find_edge_directed_from_node(g.edges, Get(g.nodes, a).next[1], b)

\* Graph::contains_edge
graph_contains_edge(g, a, b) == graph_find_edge(g, a, b).tag = "Some"

\* Graph::node_weight
graph_node_weight(g, a) ==
    IF InBounds(g.nodes, a) THEN Some(Get(g.nodes, a).weight) ELSE None

\* the Edges iterator of a directed graph: the edge indices of list k
RECURSIVE edge_list(_, _, _)
edge_list(edges, cur, k) ==
    IF ~InBounds(edges, cur) THEN <<>>
    ELSE <<cur>> \o edge_list(edges, Get(edges, cur).next[k], k)

\* the outgoing list walked from its tail, oldest edge first
graph_edges_outgoing_oldest_first(g, a) ==
    IF ~InBounds(g.nodes, a) THEN <<>>
    ELSE LET es == edge_list(g.edges, Get(g.nodes, a).next[1], 1)
         IN  [i \in 1..Len(es) |-> es[Len(es) + 1 - i]]

\* Graph::edges_directed(a, Outgoing), which is also Graph::edges(a)
graph_edges_outgoing(g, a) ==
    IF ~InBounds(g.nodes, a) THEN <<>>
    ELSE edge_list(g.edges, Get(g.nodes, a).next[1], 1)

\* neighbors yielding the outgoing list from its tail, oldest edge first
graph_neighbors_reversed(g, a) ==
    LET es == graph_edges_outgoing(g, a)
    IN  [i \in 1..Len(es) |-> Get(g.edges, es[Len(es) + 1 - i]).node[2]]

\* Graph::neighbors(a): the targets of the outgoing list, in list order
graph_neighbors(g, a) ==
    LET es == graph_edges_outgoing(g, a)
    IN  [i \in 1..Len(es) |-> Get(g.edges, es[i]).node[2]]

(* ------------------------------------------------------------ HashMap   *)
\* the iteration orders a HashMap with these keys can have
IterOrders(m) ==
    LET ks == DOMAIN m
        n == Cardinality(ks)
    IN  {s \in [1..n -> ks] : \A i, j \in 1..n : i # j => s[i] # s[j]}

\* the lookup answering with the first key iterated, whatever its slot
find_key_first(m, order, i, idx) ==
    IF Len(order) = 0 THEN None ELSE Some(order[1])

\* index_map.iter().find_map(|(id, &idx)| if idx == nx { Some(id) } ..):
\* the first key in iteration order that maps to idx
RECURSIVE find_key(_, _, _, _)
find_key(m, order, i, idx) ==
    IF i > Len(order) THEN None
    ELSE IF m[order[i]] = idx THEN Some(order[i])
    ELSE find_key(m, order, i + 1, idx)

\* HashMap::get
map_get(m, k) == IF k \in DOMAIN m THEN Some(m[k]) ELSE None

\* HashMap::insert
map_insert(m, k, v) == [x \in DOMAIN m \cup {k} |-> IF x = k THEN v ELSE m[x]]

\* HashMap::remove
map_remove(m, k) == [x \in DOMAIN m \ {k} |-> m[x]]

(* ------------------------------------------------------- NodeGraph API  *)
\* new starting with one unkeyed slot
new_with_slot == [graph |-> graph_add_node(graph_new, "d1").g, index_map |-> <<>>]

\* NodeGraph::new / Default::default
new == [graph |-> graph_new, index_map |-> <<>>]

\* add_node recording the vector length after the push instead of the index
add_node_len_after(g, m, id, data) ==
    LET r == graph_add_node(g, data)
    IN  [graph |-> r.g, index_map |-> map_insert(m, id, Len(r.g.nodes)),
         ret |-> Value(id)]

\* add_node refusing a key that is already present
add_node_reject_present(g, m, id, data) ==
    IF map_get(m, id).tag = "Some"
    THEN [graph |-> g, index_map |-> m, ret |-> Err("NodeAlreadyExists")]
    ELSE LET r == graph_add_node(g, data)
         IN  [graph |-> r.g, index_map |-> map_insert(m, id, r.index),
              ret |-> Value(id)]

\* add_node storing the payload in the slot a present key already has
add_node_update_in_place(g, m, id, data) ==
    IF map_get(m, id).tag = "Some" /\ InBounds(g.nodes, m[id])
    THEN [graph |-> [g EXCEPT !.nodes =
                       SetAt(@, m[id], [Get(@, m[id]) EXCEPT !.weight = data])],
          index_map |-> m, ret |-> Value(id)]
    ELSE LET r == graph_add_node(g, data)
         IN  [graph |-> r.g, index_map |-> map_insert(m, id, r.index),
              ret |-> Value(id)]

\* NodeGraph::add_node
add_node(g, m, id, data) ==
    LET r == graph_add_node(g, data)
    IN  [graph |-> r.g, index_map |-> map_insert(m, id, r.index), ret |-> Value(id)]

\* remove_node falling back to index 0 for an unknown key
remove_node_default_index(g, m, id) ==
    LET r == graph_remove_node(g, IF map_get(m, id).tag = "Some" THEN m[id] ELSE 0)
    IN  [graph |-> r.g, index_map |-> map_remove(m, id), ret |-> r.ret]

\* NodeGraph::remove_node
remove_node(g, m, id) ==
    IF map_get(m, id).tag = "Some"
    THEN LET r == graph_remove_node(g, m[id])
         IN  [graph |-> r.g, index_map |-> map_remove(m, id), ret |-> r.ret]
    ELSE [graph |-> g, index_map |-> m, ret |-> None]

\* add_edge that checks only the source key and falls back to the source
\* index for an unknown target
add_edge_unchecked_to(g, m, from, to, value) ==
    IF map_get(m, from).tag = "None"
    THEN [graph |-> g, index_map |-> m, ret |-> Err("NodeNotFound")]
    ELSE IF ~InBounds(g.nodes, m[from])
    THEN [graph |-> g, index_map |-> m, ret |-> Panic]
    ELSE IF map_get(m, to).tag = "None"
    THEN [graph |-> graph_add_edge(g, m[from], m[from], value),
          index_map |-> m, ret |-> Ok]
    ELSE IF index_twice(g.nodes, m[from], m[to]) = "None"
    THEN [graph |-> g, index_map |-> m, ret |-> Panic]
    ELSE [graph |-> graph_add_edge(g, m[from], m[to], value),
          index_map |-> m, ret |-> Ok]

\* NodeGraph::add_edge; petgraph's add_edge panics when index_twice finds an
\* index out of bounds
add_edge(g, m, from, to, value) ==
    IF map_get(m, from).tag = "None"
    THEN [graph |-> g, index_map |-> m, ret |-> Err("NodeNotFound")]
    ELSE IF map_get(m, to).tag = "None"
    THEN [graph |-> g, index_map |-> m, ret |-> Err("NodeNotFound")]
    ELSE IF index_twice(g.nodes, m[from], m[to]) = "None"
    THEN [graph |-> g, index_map |-> m, ret |-> Panic]
    ELSE [graph |-> graph_add_edge(g, m[from], m[to], value),
          index_map |-> m, ret |-> Ok]

\* remove_edge looking the edge up from the target to the source
remove_edge_reversed(g, m, from, to) ==
    IF map_get(m, from).tag = "Some" /\ map_get(m, to).tag = "Some"
    THEN LET edge == graph_find_edge(g, m[to], m[from])
         IN  IF edge.tag = "Some"
             THEN LET r == graph_remove_edge(g, edge.val)
                  IN  [graph |-> r.g, index_map |-> m, ret |-> r.ret]
             ELSE [graph |-> g, index_map |-> m, ret |-> None]
    ELSE [graph |-> g, index_map |-> m, ret |-> None]

\* remove_edge removing a second edge between the slots when there is one
remove_edge_twice(g, m, from, to) ==
    IF map_get(m, from).tag = "Some" /\ map_get(m, to).tag = "Some"
    THEN LET edge == graph_find_edge(g, m[from], m[to])
         IN  IF edge.tag = "Some"
             THEN LET r == graph_remove_edge(g, edge.val)
                      again == graph_find_edge(r.g, m[from], m[to])
                  IN  [graph |-> IF again.tag = "Some"
                                 THEN graph_remove_edge(r.g, again.val).g ELSE r.g,
                       index_map |-> m, ret |-> r.ret]
             ELSE [graph |-> g, index_map |-> m, ret |-> None]
    ELSE [graph |-> g, index_map |-> m, ret |-> None]

\* find_edge answering with the last matching edge of the list, the oldest
RECURSIVE find_edge_oldest(_, _, _, _)
find_edge_oldest(g, cur, b, found) ==
    IF ~InBounds(g.edges, cur) THEN found
    ELSE find_edge_oldest(g, Get(g.edges, cur).next[1], b,
                          IF Get(g.edges, cur).node[2] = b THEN Some(cur) ELSE found)

\* remove_edge removing the oldest edge between the slots
remove_edge_oldest(g, m, from, to) ==
    IF map_get(m, from).tag = "Some" /\ map_get(m, to).tag = "Some"
       /\ InBounds(g.nodes, m[from])
    THEN LET edge == find_edge_oldest(g, Get(g.nodes, m[from]).next[1], m[to], None)
         IN  IF edge.tag = "Some"
             THEN LET r == graph_remove_edge(g, edge.val)
                  IN  [graph |-> r.g, index_map |-> m, ret |-> r.ret]
             ELSE [graph |-> g, index_map |-> m, ret |-> None]
    ELSE [graph |-> g, index_map |-> m, ret |-> None]

\* NodeGraph::remove_edge
remove_edge(g, m, from, to) ==
    IF map_get(m, from).tag = "Some" /\ map_get(m, to).tag = "Some"
    THEN LET edge == graph_find_edge(g, m[from], m[to])
         IN  IF edge.tag = "Some"
             THEN LET r == graph_remove_edge(g, edge.val)
                  IN  [graph |-> r.g, index_map |-> m, ret |-> r.ret]
             ELSE [graph |-> g, index_map |-> m, ret |-> None]
    ELSE [graph |-> g, index_map |-> m, ret |-> None]

\* NodeGraph::contains_node
contains_node(m, id) == id \in DOMAIN m

\* NodeGraph::contains_edge
contains_edge(g, m, from, to) ==
    IF map_get(m, from).tag = "Some" /\ map_get(m, to).tag = "Some"
    THEN graph_contains_edge(g, m[from], m[to])
    ELSE FALSE

\* NodeGraph::node_data
node_data(g, m, id) ==
    IF map_get(m, id).tag = "Some" THEN graph_node_weight(g, m[id]) ELSE None

\* the filter_map closure of get_edges_connected_to_node over the edges
\* es[i..]: the adjacent node is the target when the source is index, else
\* the source; an edge whose adjacent node has no key is skipped
RECURSIVE connected_pairs(_, _, _, _, _, _)
connected_pairs(g, m, order, index, es, i) ==
    IF i > Len(es) THEN <<>>
    ELSE LET edge == Get(g.edges, es[i])
             source == edge.node[1]
             target == edge.node[2]
             adjacent == IF source = index THEN target ELSE source
             adjacent_node_id == find_key(m, order, 1, adjacent)
             rest == connected_pairs(g, m, order, index, es, i + 1)
         IN  IF adjacent_node_id.tag = "None" THEN rest
             ELSE <<(<<adjacent_node_id.val, edge.weight>>)>> \o rest

\* NodeGraph::get_edges_connected_to_node; order is the HashMap's iteration
\* order during the call
get_edges_connected_to_node(g, m, order, id) ==
    IF map_get(m, id).tag = "None" THEN None
    ELSE Some(connected_pairs(g, m, order, m[id], graph_edges_outgoing(g, m[id]), 1))

\* the filter_map closure of get_edges_from over the edges es[i..]
RECURSIVE outgoing_pairs(_, _, _, _, _)
outgoing_pairs(g, m, order, es, i) ==
    IF i > Len(es) THEN <<>>
    ELSE LET edge == Get(g.edges, es[i])
             target_id == find_key(m, order, 1, edge.node[2])
             rest == outgoing_pairs(g, m, order, es, i + 1)
         IN  IF target_id.tag = "None" THEN rest
             ELSE <<(<<target_id.val, edge.weight>>)>> \o rest

\* NodeGraph::get_edges_from
get_edges_from(g, m, order, id) ==
    IF map_get(m, id).tag = "None" THEN None
    ELSE Some(outgoing_pairs(g, m, order, graph_edges_outgoing(g, m[id]), 1))

\* the loop of Dfs::next over graph.neighbors(node): push each successor
\* that is not yet discovered
RECURSIVE push_undiscovered(_, _, _, _)
push_undiscovered(stack, discovered, succs, i) ==
    IF i > Len(succs) THEN stack
    ELSE push_undiscovered(
             IF succs[i] \in discovered THEN stack ELSE Append(stack, succs[i]),
             discovered, succs, i + 1)

\* Dfs::next: pop until a node not yet discovered comes up, mark it, push
\* its undiscovered successors and return it
RECURSIVE dfs_next(_, _, _)
dfs_next(g, stack, discovered) ==
    IF stack = <<>> THEN [stack |-> stack, discovered |-> discovered, ret |-> None]
    ELSE LET node == stack[Len(stack)]
             popped == SubSeq(stack, 1, Len(stack) - 1)
         IN  IF node \notin discovered
             THEN [stack |-> push_undiscovered(popped, discovered \cup {node},
                                               graph_neighbors(g, node), 1),
                   discovered |-> discovered \cup {node},
                   ret |-> Some(node)]
             ELSE dfs_next(g, popped, discovered)

\* the while loop of traverse_dfs putting each key in front of the result
RECURSIVE dfs_loop_prepend(_, _, _, _, _, _)
dfs_loop_prepend(g, m, order, stack, discovered, result) ==
    LET r == dfs_next(g, stack, discovered)
    IN  IF r.ret.tag = "None" THEN result
        ELSE LET node_id == find_key(m, order, 1, r.ret.val)
             IN  dfs_loop_prepend(g, m, order, r.stack, r.discovered,
                          IF node_id.tag = "Some" THEN <<node_id.val>> \o result
                          ELSE result)

\* the while loop of traverse_dfs: a visited node whose index no key maps
\* to is left out of the result
RECURSIVE dfs_loop(_, _, _, _, _, _)
dfs_loop(g, m, order, stack, discovered, result) ==
    LET r == dfs_next(g, stack, discovered)
    IN  IF r.ret.tag = "None" THEN result
        ELSE LET node_id == find_key(m, order, 1, r.ret.val)
             IN  dfs_loop(g, m, order, r.stack, r.discovered,
                          IF node_id.tag = "Some" THEN Append(result, node_id.val)
                          ELSE result)

\* NodeGraph::traverse_dfs; the visit map is a FixedBitSet of node_count bits
\* and marking a start index beyond it panics
traverse_dfs(g, m, order, start_id) ==
    IF map_get(m, start_id).tag = "None" THEN None
    ELSE IF ~InBounds(g.nodes, m[start_id]) THEN Panic
    ELSE Some(dfs_loop(g, m, order, <<m[start_id]>>, {}, <<>>))

\* NodeGraph::node_count, edge_count, is_empty
node_count(g) == Len(g.nodes)
edge_count(g) == Len(g.edges)
is_empty(g) == node_count(g) = 0

\* the for loop of add_nodes from entry i on
RECURSIVE add_nodes_loop(_, _, _, _)
add_nodes_loop(g, m, nodes, i) ==
    IF i > Len(nodes) THEN [graph |-> g, index_map |-> m, ret |-> Value(<<>>)]
    ELSE LET r == add_node(g, m, nodes[i][1], nodes[i][2])
         IN  add_nodes_loop(r.graph, r.index_map, nodes, i + 1)

\* NodeGraph::add_nodes
add_nodes(g, m, nodes) == add_nodes_loop(g, m, nodes, 1)

\* the for loop of add_edges from entry i on: `?` returns the first Err
\* (a panic of add_edge ends the call as well)
RECURSIVE add_edges_loop(_, _, _, _)
add_edges_loop(g, m, edges, i) ==
    IF i > Len(edges) THEN [graph |-> g, index_map |-> m, ret |-> Ok]
    ELSE LET r == add_edge(g, m, edges[i][1], edges[i][2], edges[i][3])
         IN  IF r.ret = Ok THEN add_edges_loop(r.graph, r.index_map, edges, i + 1)
             ELSE r

\* NodeGraph::add_edges
add_edges(g, m, edges) == add_edges_loop(g, m, edges, 1)

(* ------------------------------------------------------ serialization   *)
\* serialize writing each edge as (target, source, weight)
serialize_swapped(g, m) ==
    [nodes |-> [i \in 1..Len(g.nodes) |-> g.nodes[i].weight],
     edges |-> [i \in 1..Len(g.edges) |->
                  <<g.edges[i].node[2], g.edges[i].node[1], g.edges[i].weight>>],
     index_map |-> m]

\* derive(Serialize): the node weights in index order, the edges in index
\* order as (source, target, weight), and the key map
serialize(g, m) ==
    [nodes |-> [i \in 1..Len(g.nodes) |-> g.nodes[i].weight],
     edges |-> [i \in 1..Len(g.edges) |->
                  <<g.edges[i].node[1], g.edges[i].node[2], g.edges[i].weight>>],
     index_map |-> m]

\* Graph::link_edges: thread the edges on the lists in index order
RECURSIVE link_edges(_, _)
link_edges(g, i) ==
    IF i >= Len(g.edges) THEN g
    ELSE LET edge == Get(g.edges, i)
             a == edge.node[1]
             b == edge.node[2]
             an == Get(g.nodes, a)
             bn == Get(g.nodes, b)
         IN  IF a = b
             THEN link_edges(
                    [nodes |-> SetAt(g.nodes, a, [an EXCEPT !.next = <<i, i>>]),
                     edges |-> SetAt(g.edges, i, [edge EXCEPT !.next = an.next])], i + 1)
             ELSE link_edges(
                    [nodes |-> SetAt(SetAt(g.nodes, a, [an EXCEPT !.next[1] = i]),
                                     b, [bn EXCEPT !.next[2] = i]),
                     edges |-> SetAt(g.edges, i,
                                 [edge EXCEPT !.next = <<an.next[1], bn.next[2]>>])],
                    i + 1)

\* the node vector read back: the weights, no edge linked yet
RECURSIVE read_nodes(_, _)
read_nodes(ws, i) ==
    IF i > Len(ws) THEN <<>>
    ELSE <<[weight |-> ws[i], next |-> <<END, END>>]>> \o read_nodes(ws, i + 1)

\* the edge vector read back: endpoints and weight, no edge linked yet
RECURSIVE read_edges(_, _)
read_edges(es, i) ==
    IF i > Len(es) THEN <<>>
    ELSE <<[weight |-> es[i][3], node |-> <<es[i][1], es[i][2]>>,
            next |-> <<END, END>>]>> \o read_edges(es, i + 1)

\* derive(Deserialize): rebuild the vectors, then link the edges
deserialize(s) ==
    [graph |-> link_edges([nodes |-> read_nodes(s.nodes, 1),
                           edges |-> read_edges(s.edges, 1)], 0),
     index_map |-> s.index_map]

(* ------------------------------------------------------------- actions  *)
(* The program state is the NodeGraph value: graph and index_map.  A call  *)
(* returns its result to the caller and stores nothing else, so the        *)
(* results are stated on the operators above; a panic ends the program.    *)
(* added is the caller's record of the keys it has passed to add_node; it   *)
(* is kept by the callers of SpecOnce, which add every key at most once.   *)
Init ==
    /\ graph = new.graph
    /\ index_map = new.index_map
    /\ panicked = FALSE
    /\ added = {}

\* the state after a &mut self call with outcome r, within the size bounds
Apply(r, maxNodes, maxEdges) ==
    /\ Len(r.graph.nodes) <= maxNodes
    /\ Len(r.graph.edges) <= maxEdges
    /\ graph' = r.graph
    /\ index_map' = r.index_map
    /\ panicked' = (r.ret.tag = "Panic")
    /\ UNCHANGED added

\* the state after a &self call with result ret
Answer(ret) ==
    /\ UNCHANGED <<graph, index_map, added>>
    /\ panicked' = (ret.tag = "Panic")

AddNode(id, data) ==
    /\ ~panicked
    /\ Apply(add_node(graph, index_map, id, data), MaxNodes, MaxEdges)

RemoveNode(id) ==
    /\ ~panicked
    /\ Apply(remove_node(graph, index_map, id), MaxNodes, MaxEdges)

AddEdge(from, to, value) ==
    /\ ~panicked
    /\ Apply(add_edge(graph, index_map, from, to, value), MaxNodes, MaxEdges)

RemoveEdge(from, to) ==
    /\ ~panicked
    /\ Apply(remove_edge(graph, index_map, from, to), MaxNodes, MaxEdges)

ContainsNode(id) ==
    /\ ~panicked
    /\ Answer(Value(contains_node(index_map, id)))

ContainsEdge(from, to) ==
    /\ ~panicked
    /\ Answer(Value(contains_edge(graph, index_map, from, to)))

NodeData(id) ==
    /\ ~panicked
    /\ Answer(node_data(graph, index_map, id))

GetEdgesConnectedToNode(id) ==
    /\ ~panicked
    /\ \E order \in IterOrders(index_map) :
         Answer(get_edges_connected_to_node(graph, index_map, order, id))

GetEdgesFrom(id) ==
    /\ ~panicked
    /\ \E order \in IterOrders(index_map) :
         Answer(get_edges_from(graph, index_map, order, id))

TraverseDfs(id) ==
    /\ ~panicked
    /\ \E order \in IterOrders(index_map) :
         Answer(traverse_dfs(graph, index_map, order, id))

\* serde round trip: the program goes on with the deserialized copy
SerdeRoundTrip ==
    /\ ~panicked
    /\ LET r == deserialize(serialize(graph, index_map))
       IN  Apply([graph |-> r.graph, index_map |-> r.index_map, ret |-> Ok],
                 MaxNodes, MaxEdges)

Next ==
    \/ \E id \in Keys, data \in NodeDatas : AddNode(id, data)
    \/ \E id \in Keys : RemoveNode(id)
    \/ \E from \in Keys, to \in Keys, value \in EdgeWeights : AddEdge(from, to, value)
    \/ \E from \in Keys, to \in Keys : RemoveEdge(from, to)
    \/ \E id \in Keys : ContainsNode(id)
    \/ \E from \in Keys, to \in Keys : ContainsEdge(from, to)
    \/ \E id \in Keys : NodeData(id)
    \/ \E id \in Keys : GetEdgesConnectedToNode(id)
    \/ \E id \in Keys : GetEdgesFrom(id)
    \/ \E id \in Keys : TraverseDfs(id)
    \/ SerdeRoundTrip

Spec == Init /\ [][Next]_vars

(* The calls that change the graph, on their own: the states are those of  *)
(* Spec without its queries.                                                *)
NextCore ==
    \/ \E id \in Keys, data \in NodeDatas : AddNode(id, data)
    \/ \E id \in Keys : RemoveNode(id)
    \/ \E from \in Keys, to \in Keys, value \in EdgeWeights : AddEdge(from, to, value)
    \/ \E from \in Keys, to \in Keys : RemoveEdge(from, to)

SpecCore == Init /\ [][NextCore]_vars

(* A caller that passes every key to add_node at most once.                *)
OnceAddNode(id, data) ==
    /\ ~panicked
    /\ id \notin added
    /\ LET r == add_node(graph, index_map, id, data)
       IN  /\ Len(r.graph.nodes) <= MaxNodes
           /\ graph' = r.graph
           /\ index_map' = r.index_map
           /\ panicked' = (r.ret.tag = "Panic")
    /\ added' = added \cup {id}

OnceRemoveNode(id) ==
    /\ ~panicked
    /\ Apply(remove_node(graph, index_map, id), MaxNodes, MaxEdges)

OnceAddEdge(from, to, value) ==
    /\ ~panicked
    /\ Apply(add_edge(graph, index_map, from, to, value), MaxNodes, MaxEdges)

OnceRemoveEdge(from, to) ==
    /\ ~panicked
    /\ Apply(remove_edge(graph, index_map, from, to), MaxNodes, MaxEdges)

NextOnce ==
    \/ \E id \in Keys, data \in NodeDatas : OnceAddNode(id, data)
    \/ \E id \in Keys : OnceRemoveNode(id)
    \/ \E from \in Keys, to \in Keys, value \in EdgeWeights :
         OnceAddEdge(from, to, value)
    \/ \E from \in Keys, to \in Keys : OnceRemoveEdge(from, to)

SpecOnce == Init /\ [][NextOnce]_vars

(* A graph built only by add_node with distinct keys and add_edge, then    *)
(* traversed.  Traversal returns keys and reads no payload, so one node    *)
(* payload and one edge payload are drawn.                                 *)
BuildAddNode(id) ==
    /\ ~contains_node(index_map, id)
    /\ Apply(add_node(graph, index_map, id, "d1"), MaxBuildNodes, MaxBuildEdges)

BuildAddEdge(from, to) ==
    /\ ~panicked
    /\ Apply(add_edge(graph, index_map, from, to, "w1"), MaxBuildNodes, MaxBuildEdges)

BuildTraverseDfs(id) ==
    /\ ~panicked
    /\ \E order \in IterOrders(index_map) :
         Answer(traverse_dfs(graph, index_map, order, id))

NextBuild ==
    \/ \E id \in BuildKeys : BuildAddNode(id)
    \/ \E from \in BuildKeys, to \in BuildKeys : BuildAddEdge(from, to)
    \/ \E id \in BuildKeys : BuildTraverseDfs(id)

SpecBuild == Init /\ [][NextBuild]_vars

(* An acyclic graph: the keys are added in increasing order and every edge *)
(* goes from a smaller key to a larger one (parallel edges included), then *)
(* the graph is traversed.                                                 *)
DagAddNode(id) ==
    /\ ~panicked
    /\ id = node_count(graph) + 1
    /\ Apply(add_node(graph, index_map, id, "d1"), MaxDagNodes, MaxDagEdges)

DagAddEdge(from, to) ==
    /\ ~panicked
    /\ from < to
    /\ Apply(add_edge(graph, index_map, from, to, "w1"), MaxDagNodes, MaxDagEdges)

DagTraverseDfs(id) ==
    /\ ~panicked
    /\ \E order \in IterOrders(index_map) :
         Answer(traverse_dfs(graph, index_map, order, id))

NextDag ==
    \/ \E id \in DagKeys : DagAddNode(id)
    \/ \E from \in DagKeys, to \in DagKeys : DagAddEdge(from, to)
    \/ \E id \in DagKeys : DagTraverseDfs(id)

SpecDag == Init /\ [][NextDag]_vars

(* The batch calls.  A batch is a slice of at most MaxBatch entries; the    *)
(* edge payload is copied and never compared, so add_edges draws one.      *)
SeqsUpTo(S, n) == UNION {[1..k -> S] : k \in 0..n}
NodeBatches == SeqsUpTo(Keys \X NodeDatas, MaxBatch)
EdgeBatches == SeqsUpTo(Keys \X Keys \X {"w1"}, MaxBatch)

AddNodes(nodes) ==
    /\ ~panicked
    /\ Apply(add_nodes(graph, index_map, nodes), MaxNodes, MaxEdges)

AddEdges(edges) ==
    /\ ~panicked
    /\ Apply(add_edges(graph, index_map, edges), MaxNodes, MaxEdges)

BatchRemoveNode(id) ==
    /\ ~panicked
    /\ Apply(remove_node(graph, index_map, id), MaxNodes, MaxEdges)

BatchRemoveEdge(from, to) ==
    /\ ~panicked
    /\ Apply(remove_edge(graph, index_map, from, to), MaxNodes, MaxEdges)

NextBatch ==
    \/ \E nodes \in NodeBatches : AddNodes(nodes)
    \/ \E edges \in EdgeBatches : AddEdges(edges)
    \/ \E id \in Keys : BatchRemoveNode(id)
    \/ \E from \in Keys, to \in Keys : BatchRemoveEdge(from, to)

SpecBatch == Init /\ [][NextBatch]_vars

(* Calls whose edge payload records the keys the edge was added with (the  *)
(* Edge type is the caller's), and where add_node is called for absent     *)
(* keys only.  What the graph holds for a key can then be read off the     *)
(* payloads, whatever slots the key map points to.                         *)
KeyedAddNode(id, data) ==
    /\ ~panicked
    /\ ~contains_node(index_map, id)
    /\ Apply(add_node(graph, index_map, id, data), MaxNodes, MaxEdges)

KeyedRemoveNode(id) ==
    /\ ~panicked
    /\ Apply(remove_node(graph, index_map, id), MaxNodes, MaxEdges)

KeyedAddEdge(from, to) ==
    /\ ~panicked
    /\ Apply(add_edge(graph, index_map, from, to, <<from, to>>), MaxNodes, MaxEdges)

KeyedRemoveEdge(from, to) ==
    /\ ~panicked
    /\ Apply(remove_edge(graph, index_map, from, to), MaxNodes, MaxEdges)

KeyedGetEdgesFrom(id) ==
    /\ ~panicked
    /\ \E order \in IterOrders(index_map) :
         Answer(get_edges_from(graph, index_map, order, id))

NextKeyed ==
    \/ \E id \in Keys, data \in NodeDatas : KeyedAddNode(id, data)
    \/ \E id \in Keys : KeyedRemoveNode(id)
    \/ \E from \in Keys, to \in Keys : KeyedAddEdge(from, to)
    \/ \E from \in Keys, to \in Keys : KeyedRemoveEdge(from, to)
    \/ \E id \in Keys : KeyedGetEdgesFrom(id)

SpecKeyed == Init /\ [][NextKeyed]_vars

(* ---------------------------------------------------------- well-formed *)
RECURSIVE list_ends(_, _, _, _)
list_ends(edges, cur, k, fuel) ==
    IF ~InBounds(edges, cur) THEN cur = END
    ELSE IF fuel = 0 THEN FALSE
    ELSE list_ends(edges, Get(edges, cur).next[k], k, fuel - 1)

\* the vectors stay within the bounds, every edge list ends, and every edge
\* has both endpoints in the node vector
TypeOK ==
    /\ DOMAIN index_map \subseteq Keys \cup BuildKeys \cup DagKeys
    /\ panicked \in BOOLEAN
    /\ \A i \in 1..Len(graph.nodes), k \in 1..2 :
         list_ends(graph.edges, graph.nodes[i].next[k], k, Len(graph.edges))
    /\ \A i \in 1..Len(graph.edges) :
         /\ InBounds(graph.nodes, graph.edges[i].node[1])
         /\ InBounds(graph.nodes, graph.edges[i].node[2])

(* ================================================================ claims *)
\* the keys a caller can name
AllKeys == Keys \cup BuildKeys \cup DagKeys

\* the keys for which contains_node is true
Present == {k \in AllKeys : contains_node(index_map, k)}

\* C1 (as claimed): for every present key k, remove_node(k) returns Some(d)
\* with d the payload node_data(k) reports, and afterwards contains_node(k)
\* is false and no contains_edge answer involving k is true.
C1_RemoveNodeReturnsPayload ==
    \A k \in Present :
        LET r == remove_node(graph, index_map, k)
        IN  /\ r.ret.tag = "Some"
            /\ r.ret = node_data(graph, index_map, k)
            /\ ~contains_node(r.index_map, k)
            /\ \A x \in AllKeys :
                 /\ ~contains_edge(r.graph, r.index_map, k, x)
                 /\ ~contains_edge(r.graph, r.index_map, x, k)

\* C2 (as claimed): no call sequence makes an operation panic.
C2_NoOperationPanics == ~panicked

\* C3: for every absent key k and payload d, add_node(k, d) returns k, and
\* afterwards contains_node(k) is true and node_data(k) is Some(d).
C3_AddNodeRoundTrip ==
    \A k \in Keys, d \in NodeDatas :
        ~contains_node(index_map, k) =>
            LET r == add_node(graph, index_map, k, d)
            IN  /\ r.ret = Value(k)
                /\ contains_node(r.index_map, k)
                /\ node_data(r.graph, r.index_map, k) = Some(d)

\* C3 witness: a graph that already holds a node and an edge, where a key is
\* absent and add_node of it stores the payload.
C3_Witness ==
    /\ node_count(graph) >= 1
    /\ edge_count(graph) >= 1
    /\ \E k \in Keys, d \in NodeDatas :
         /\ ~contains_node(index_map, k)
         /\ node_data(add_node(graph, index_map, k, d).graph,
                      add_node(graph, index_map, k, d).index_map, k) = Some(d)

\* C4 (as claimed): with a and b present, after a successful add_edge(a,b,w)
\* contains_edge(a,b) is true, remove_edge(a,b) returns Some(w), and after
\* that removal contains_edge(a,b) is false.
C4_EdgeRoundTripThenAbsent ==
    \A a \in Present, b \in Present, w \in EdgeWeights :
        LET r1 == add_edge(graph, index_map, a, b, w)
            r2 == remove_edge(r1.graph, r1.index_map, a, b)
        IN  r1.ret = Ok =>
              /\ contains_edge(r1.graph, r1.index_map, a, b)
              /\ r2.ret = Some(w)
              /\ ~contains_edge(r2.graph, r2.index_map, a, b)

\* C4 (amended): with a and b present, after a successful add_edge(a,b,w)
\* contains_edge(a,b) is true, remove_edge(a,b) returns Some(w), and after
\* that removal contains_edge(a,b) has the value it had before the add_edge
\* (false when no edge from a to b existed, true when an older one remains).
C4_EdgeRoundTrip ==
    \A a \in Present, b \in Present, w \in EdgeWeights :
        LET r1 == add_edge(graph, index_map, a, b, w)
            r2 == remove_edge(r1.graph, r1.index_map, a, b)
        IN  r1.ret = Ok =>
              /\ contains_edge(r1.graph, r1.index_map, a, b)
              /\ r2.ret = Some(w)
              /\ contains_edge(r2.graph, r2.index_map, a, b)
                   = contains_edge(graph, index_map, a, b)

\* C4 witness: an edge a->b with payload w1 exists, add_edge(a,b,w2)
\* succeeds, and remove_edge(a,b) then returns w2 and leaves the older edge.
C4_Witness ==
    \E a \in Present, b \in Present :
        /\ a # b
        /\ contains_edge(graph, index_map, a, b)
        /\ add_edge(graph, index_map, a, b, "w2").ret = Ok
        /\ remove_edge(add_edge(graph, index_map, a, b, "w2").graph,
                       index_map, a, b).ret = Some("w2")
        /\ remove_edge(graph, index_map, a, b).ret = Some("w1")

\* C5: add_edge(a,b,w) with a or b absent returns Err(NodeNotFound) and
\* leaves edge_count, node_count, the key map and every contains_edge
\* answer as they were.
C5_AddEdgeNeedsEndpoints ==
    \A a \in Keys, b \in Keys, w \in EdgeWeights :
        (~contains_node(index_map, a) \/ ~contains_node(index_map, b)) =>
            LET r == add_edge(graph, index_map, a, b, w)
            IN  /\ r.ret = Err("NodeNotFound")
                /\ edge_count(r.graph) = edge_count(graph)
                /\ node_count(r.graph) = node_count(graph)
                /\ r.index_map = index_map
                /\ r.graph = graph
                /\ \A x \in Keys, y \in Keys :
                     contains_edge(r.graph, r.index_map, x, y)
                       = contains_edge(graph, index_map, x, y)

\* C5 witness: the source is present and has an edge, the target is absent,
\* and add_edge answers NodeNotFound.
C5_Witness ==
    \E a \in Keys, b \in Keys :
        /\ contains_node(index_map, a)
        /\ ~contains_node(index_map, b)
        /\ contains_edge(graph, index_map, a, a)
        /\ add_edge(graph, index_map, a, b, "w1").ret = Err("NodeNotFound")

\* the edges that have slot idx as source or as target
IncidentEdges(idx) ==
    {i \in 1..Len(graph.edges) :
        graph.edges[i].node[1] = idx \/ graph.edges[i].node[2] = idx}

\* C6 (as claimed): for a present key k, get_edges_connected_to_node(k)
\* returns one (neighbor key, payload) entry for every edge that has k's
\* node as an endpoint, incoming edges a->k (neighbor a) as well as
\* outgoing edges k->b (neighbor b).
C6_ConnectedListsBothDirections ==
    \A k \in Present, order \in IterOrders(index_map) :
        LET r == get_edges_connected_to_node(graph, index_map, order, k)
            idx == index_map[k]
        IN  /\ r.tag = "Some"
            /\ Len(r.val) = Cardinality(IncidentEdges(idx))
            /\ \A i \in IncidentEdges(idx) :
                 LET e == graph.edges[i]
                     other == IF e.node[1] = idx THEN e.node[2] ELSE e.node[1]
                 IN  \E j \in 1..Len(r.val) :
                        /\ r.val[j][2] = e.weight
                        /\ contains_node(index_map, r.val[j][1])
                        /\ index_map[r.val[j][1]] = other

\* the keys reachable from the keys in S along contains_edge
RECURSIVE ReachKeys(_)
ReachKeys(S) ==
    LET T == S \cup {y \in AllKeys :
                       \E x \in S : contains_edge(graph, index_map, x, y)}
    IN  IF T = S THEN S ELSE ReachKeys(T)

\* the set of elements of a sequence
Range(seq) == {seq[i] : i \in 1..Len(seq)}

\* C7 (as claimed): for every present start key s, traverse_dfs(s) returns
\* Some sequence that begins with s, holds every key reachable from s along
\* directed edges exactly once, and holds no other key.
C7_DfsVisitsReachableOnce ==
    \A s \in Present, order \in IterOrders(index_map) :
        LET r == traverse_dfs(graph, index_map, order, s)
        IN  /\ r.tag = "Some"
            /\ Len(r.val) >= 1
            /\ r.val[1] = s
            /\ Cardinality(Range(r.val)) = Len(r.val)
            /\ Range(r.val) = ReachKeys({s})

\* the slots reachable from the slots in S along the edges
RECURSIVE ReachSlots(_)
ReachSlots(S) ==
    LET T == S \cup {graph.edges[i].node[2] : i \in
                       {j \in 1..Len(graph.edges) : graph.edges[j].node[1] \in S}}
    IN  IF T = S THEN S ELSE ReachSlots(T)

\* the part reachable from slot root is a tree: no edge inside it enters
\* the root and exactly one enters every other slot
IsTree(root) ==
    LET R == ReachSlots({root})
    IN  \A n \in R :
          Cardinality({i \in 1..Len(graph.edges) :
                         graph.edges[i].node[1] \in R /\ graph.edges[i].node[2] = n})
            = IF n = root THEN 0 ELSE 1

\* the pre-order of the tree under slot n, the children of a node taken in
\* the order their edges were added (the edge index, when nothing was removed)
RECURSIVE PreOrder(_)
RECURSIVE PreOrderFrom(_, _)
PreOrder(n) == <<n>> \o PreOrderFrom(n, 1)
PreOrderFrom(n, i) ==
    IF i > Len(graph.edges) THEN <<>>
    ELSE IF graph.edges[i].node[1] = n
    THEN PreOrder(graph.edges[i].node[2]) \o PreOrderFrom(n, i + 1)
    ELSE PreOrderFrom(n, i + 1)

\* the key that maps to a slot
KeyOf(idx) == CHOOSE k \in Present : index_map[k] = idx

\* C8: in a graph built only by add_node with distinct keys and add_edge,
\* when the part reachable from the start key is a tree, traverse_dfs
\* returns its pre-order with the children of each node in the order their
\* edges were added.
C8_DfsTreePreOrderByInsertion ==
    \A s \in Present, order \in IterOrders(index_map) :
        IsTree(index_map[s]) =>
            LET pre == PreOrder(index_map[s])
            IN  traverse_dfs(graph, index_map, order, s)
                  = Some([i \in 1..Len(pre) |-> KeyOf(pre[i])])

\* C8 witness: a root with two children whose edges were added to the
\* larger key first; the traversal lists the larger key first.
C8_Witness ==
    \E s \in Present, order \in IterOrders(index_map) :
        LET r == traverse_dfs(graph, index_map, order, s)
        IN  /\ IsTree(index_map[s])
            /\ r.tag = "Some"
            /\ Len(r.val) = 3
            /\ r.val[2] > r.val[3]
            /\ contains_edge(graph, index_map, s, r.val[2])
            /\ contains_edge(graph, index_map, s, r.val[3])

\* C9: for every reachable graph g, g' = deserialize(serialize(g)) answers
\* contains_node and node_data as g does for every key, and contains_edge
\* is true in g' for every pair for which it is true in g.
C9_SerdeRoundTrip ==
    LET r == deserialize(serialize(graph, index_map))
    IN  /\ \A k \in AllKeys :
             /\ contains_node(r.index_map, k) = contains_node(index_map, k)
             /\ node_data(r.graph, r.index_map, k) = node_data(graph, index_map, k)
        /\ \A a \in AllKeys, b \in AllKeys :
             contains_edge(graph, index_map, a, b)
               => contains_edge(r.graph, r.index_map, a, b)

\* C9 witness: two keys with different payloads and an edge between them
\* one way only, all of which the deserialized copy answers.
C9_Witness ==
    LET r == deserialize(serialize(graph, index_map))
    IN  \E a \in Present, b \in Present :
          /\ a # b
          /\ node_data(graph, index_map, a).tag = "Some"
          /\ node_data(graph, index_map, b).tag = "Some"
          /\ node_data(graph, index_map, a) # node_data(graph, index_map, b)
          /\ contains_edge(graph, index_map, a, b)
          /\ ~contains_edge(graph, index_map, b, a)
          /\ contains_edge(r.graph, r.index_map, a, b)

\* C10: remove_node on an absent key, remove_edge on a pair with a missing
\* endpoint or with no edge between the endpoints, and traverse_dfs,
\* node_data, get_edges_from and get_edges_connected_to_node on an absent
\* key all return None and leave the key map, nodes, edges and payloads
\* unchanged.
C10_AbsentYieldsNone ==
    /\ \A k \in Keys :
         ~contains_node(index_map, k) =>
           /\ remove_node(graph, index_map, k)
                = [graph |-> graph, index_map |-> index_map, ret |-> None]
           /\ node_data(graph, index_map, k) = None
           /\ \A order \in IterOrders(index_map) :
                /\ traverse_dfs(graph, index_map, order, k) = None
                /\ get_edges_from(graph, index_map, order, k) = None
                /\ get_edges_connected_to_node(graph, index_map, order, k) = None
    /\ \A a \in Keys, b \in Keys :
         (\/ ~contains_node(index_map, a)
          \/ ~contains_node(index_map, b)
          \/ ~contains_edge(graph, index_map, a, b)) =>
           remove_edge(graph, index_map, a, b)
             = [graph |-> graph, index_map |-> index_map, ret |-> None]

\* C10 witness: a graph with a node, an edge and an absent key, and a
\* present key without a self-loop, where the removals return None.
C10_Witness ==
    /\ \E k \in Keys :
         /\ ~contains_node(index_map, k)
         /\ node_count(graph) >= 1
         /\ remove_node(graph, index_map, k).ret = None
    /\ edge_count(graph) >= 1
    /\ \E a \in Present :
         /\ ~contains_edge(graph, index_map, a, a)
         /\ remove_edge(graph, index_map, a, a).ret = None

\* the position of the first entry of a batch of edges whose source or
\* target key is absent, Len + 1 when there is none
FirstAbsent(m, edges) ==
    LET bad == {i \in 1..Len(edges) :
                  ~contains_node(m, edges[i][1]) \/ ~contains_node(m, edges[i][2])}
    IN  IF bad = {} THEN Len(edges) + 1
        ELSE CHOOSE i \in bad : \A j \in bad : i <= j

\* C11 (as claimed): add_edges(list) returns Err(NodeNotFound) when some
\* entry has an absent source or target key and Ok otherwise; the entries
\* before the first such entry, and no others, have been appended as edges
\* in list order between the slots of their keys, and every edge that was
\* in the graph, every node and the key map are as before.
C11_AddEdgesStopsAtFirstFailure ==
    \A edges \in EdgeBatches :
        LET r == add_edges(graph, index_map, edges)
            f == FirstAbsent(index_map, edges)
            n == Len(graph.edges)
        IN  /\ r.ret = IF f <= Len(edges) THEN Err("NodeNotFound") ELSE Ok
            /\ r.index_map = index_map
            /\ node_count(r.graph) = node_count(graph)
            /\ edge_count(r.graph) = n + f - 1
            /\ \A i \in 1..n :
                 /\ r.graph.edges[i].node = graph.edges[i].node
                 /\ r.graph.edges[i].weight = graph.edges[i].weight
            /\ \A i \in 1..(f - 1) :
                 /\ r.graph.edges[n + i].node
                      = <<index_map[edges[i][1]], index_map[edges[i][2]]>>
                 /\ r.graph.edges[n + i].weight = edges[i][3]
                 /\ contains_edge(r.graph, r.index_map, edges[i][1], edges[i][2])

\* the edges in the graph that were added with key k as source
EdgesAddedFrom(k) == {i \in 1..Len(graph.edges) : graph.edges[i].weight[1] = k}

\* C12 (as claimed): with every edge payload recording the keys the edge
\* was added with, for a present key k get_edges_from(k) returns Some list
\* whose length is the number of edges in the graph added with source k,
\* and that holds the entry (x, payload) as often as the graph holds an
\* edge added from k to x; so it has no entry for an edge that only enters.
C12_GetEdgesFromListsOutgoing ==
    \A k \in Present, order \in IterOrders(index_map) :
        LET r == get_edges_from(graph, index_map, order, k)
        IN  /\ r.tag = "Some"
            /\ Len(r.val) = Cardinality(EdgesAddedFrom(k))
            /\ \A x \in AllKeys :
                 Cardinality({j \in 1..Len(r.val) : r.val[j] = <<x, <<k, x>>>>})
                   = Cardinality({i \in EdgesAddedFrom(k) :
                                    graph.edges[i].weight = <<k, x>>})

\* how many edges of g join the slots in node (source, target) with payload w
EdgeCopies(g, node, w) ==
    Cardinality({i \in 1..Len(g.edges) :
                   g.edges[i].node = node /\ g.edges[i].weight = w})

\* the edges from the slot of a to the slot of b
ParallelEdges(a, b) ==
    {i \in 1..Len(graph.edges) :
        graph.edges[i].node = <<index_map[a], index_map[b]>>}

\* C13: a remove_edge(a, b) that returns Some(w) removes one edge with
\* payload w between the slots a and b resolve to and nothing else:
\* edge_count drops by 1, every other edge (parallel ones included), every
\* node and the key map stay, and contains_edge(a, b) is true afterwards
\* exactly when more than one edge joined those slots before.
C13_RemoveEdgeRemovesExactlyOne ==
    \A a \in Keys, b \in Keys :
        LET r == remove_edge(graph, index_map, a, b)
        IN  r.ret.tag = "Some" =>
              LET gone == <<index_map[a], index_map[b]>>
              IN  /\ edge_count(r.graph) = edge_count(graph) - 1
                  /\ r.index_map = index_map
                  /\ node_count(r.graph) = node_count(graph)
                  /\ \A i \in 1..Len(graph.nodes) :
                       r.graph.nodes[i].weight = graph.nodes[i].weight
                  /\ \A i \in 1..Len(graph.edges) :
                       LET e == graph.edges[i]
                       IN  EdgeCopies(r.graph, e.node, e.weight)
                             = EdgeCopies(graph, e.node, e.weight)
                               - (IF e.node = gone /\ e.weight = r.ret.val
                                  THEN 1 ELSE 0)
                  /\ EdgeCopies(graph, gone, r.ret.val) >= 1
                  /\ contains_edge(r.graph, r.index_map, a, b)
                       = (Cardinality(ParallelEdges(a, b)) > 1)

\* C13 witness: two parallel edges a->b with different payloads;
\* remove_edge(a, b) returns one payload and contains_edge(a, b) stays true.
C13_Witness ==
    \E a \in Present, b \in Present :
        LET r == remove_edge(graph, index_map, a, b)
        IN  /\ a # b
            /\ Cardinality(ParallelEdges(a, b)) = 2
            /\ EdgeCopies(graph, <<index_map[a], index_map[b]>>, "w1") = 1
            /\ r.ret.tag = "Some"
            /\ edge_count(r.graph) = 1
            /\ contains_edge(r.graph, r.index_map, a, b)

\* C14: no call returns NodeAlreadyExists or EdgeError: add_node returns
\* its key for every key, present or absent, and an Err returned by
\* add_edge or add_edges is NodeNotFound.
C14_NoReservedErrors ==
    /\ \A k \in Keys, d \in NodeDatas :
         add_node(graph, index_map, k, d).ret = Value(k)
    /\ \A a \in Keys, b \in Keys, w \in EdgeWeights :
         LET r == add_edge(graph, index_map, a, b, w)
         IN  r.ret.tag = "Err" => r.ret = Err("NodeNotFound")
    /\ \A edges \in EdgeBatches :
         LET r == add_edges(graph, index_map, edges)
         IN  r.ret.tag = "Err" => r.ret = Err("NodeNotFound")
    /\ \A nodes \in NodeBatches :
         add_nodes(graph, index_map, nodes).ret.tag # "Err"

\* C14 witness: a key that is present and one that is absent; add_node of
\* the present key returns the key and allocates a slot, and a batch whose
\* second entry names the absent key returns NodeNotFound.
C14_Witness ==
    \E k \in Present, x \in Keys :
        /\ ~contains_node(index_map, x)
        /\ add_node(graph, index_map, k, "d2").ret = Value(k)
        /\ node_count(add_node(graph, index_map, k, "d2").graph)
             = node_count(graph) + 1
        /\ add_edges(graph, index_map, <<(<<k, k, "w1">>), (<<k, x, "w1">>)>>).ret
             = Err("NodeNotFound")

\* C15: the graph made by new() / default(), which the program starts
\* with, has node_count 0 and edge_count 0, is_empty true, and
\* contains_node false (and node_data None) for every key.
C15_NewGraphIsEmpty ==
    (graph = new.graph /\ index_map = new.index_map) =>
        /\ node_count(graph) = 0
        /\ edge_count(graph) = 0
        /\ is_empty(graph)
        /\ \A k \in AllKeys :
             /\ ~contains_node(index_map, k)
             /\ node_data(graph, index_map, k) = None

\* C15 witness: the program holds the graph new() made and it is empty.
C15_Witness ==
    /\ graph = new.graph
    /\ index_map = new.index_map
    /\ ~panicked
    /\ is_empty(graph)
    /\ node_count(graph) + edge_count(graph) = 0

\* C16 (as claimed): invariant I1: every slot index stored in the key map
\* is the index of a node of the graph, so node_data(k) is Some for every
\* key k with contains_node(k) true.
C16_KeyMapSlotsAreLive ==
    \A k \in Present :
        /\ InBounds(graph.nodes, index_map[k])
        /\ node_data(graph, index_map, k).tag = "Some"

\* C17 (as claimed): invariant I3: no two distinct present keys map to the
\* same slot.
C17_KeyMapInjective ==
    \A j \in Present, k \in Present :
        j # k => index_map[j] # index_map[k]

\* C18 (as claimed): node_count() equals the number of keys for which
\* contains_node is true, in every state reached with add_node called for
\* absent keys only.
C18_NodeCountIsKeyCount ==
    node_count(graph) = Cardinality(Present)

\* C19 (as claimed): for all distinct keys j and k with j present,
\* node_data(j) returns the same value before and after remove_node(k).
C19_SlotStableAcrossRemoveNode ==
    \A j \in Present, k \in AllKeys :
        j # k =>
            LET r == remove_node(graph, index_map, k)
            IN  node_data(r.graph, r.index_map, j) = node_data(graph, index_map, j)

\* the edges in the graph that were added with key k as source or target
EdgesAddedWith(k) ==
    {i \in 1..Len(graph.edges) :
        graph.edges[i].weight[1] = k \/ graph.edges[i].weight[2] = k}

\* C20 (as claimed): with every edge payload recording the keys the edge
\* was added with, after remove_node(k) on a present key k the graph holds
\* no edge added with k as source or target, and edge_count() has dropped
\* by the number of such edges.
C20_RemoveNodeDeletesIncidentEdges ==
    \A k \in Present :
        LET r == remove_node(graph, index_map, k)
        IN  /\ \A i \in 1..Len(r.graph.edges) :
                 /\ r.graph.edges[i].weight[1] # k
                 /\ r.graph.edges[i].weight[2] # k
            /\ edge_count(r.graph)
                 = edge_count(graph) - Cardinality(EdgesAddedWith(k))

\* the slots reachable from slot n by one or more edges
Descendants(n) ==
    ReachSlots({graph.edges[i].node[2] : i \in
                  {j \in 1..Len(graph.edges) : graph.edges[j].node[1] = n}})

\* the part reachable from slot root has no cycle
Acyclic(root) == \A n \in ReachSlots({root}) : n \notin Descendants(n)

C22_ResultsIndependentOfIterOrder ==
    \A k \in AllKeys, o1 \in IterOrders(index_map), o2 \in IterOrders(index_map) :
        /\ traverse_dfs(graph, index_map, o1, k) = traverse_dfs(graph, index_map, o2, k)
        /\ get_edges_from(graph, index_map, o1, k)
             = get_edges_from(graph, index_map, o2, k)
        /\ get_edges_connected_to_node(graph, index_map, o1, k)
             = get_edges_connected_to_node(graph, index_map, o2, k)

\* C23: add_node(k, d) on a present key k pushes a new slot and re-points
\* k to it: node_data(k) is Some(d), node_count() is one larger,
\* edge_count() and every edge and every older slot are as before, the
\* other keys map as before, and contains_edge(k, x) and
\* contains_edge(x, k) are false for every x.
C23_DuplicateAddNodeOrphansSlot ==
    \A k \in Present, d \in NodeDatas :
        LET r == add_node(graph, index_map, k, d)
        IN  /\ r.ret = Value(k)
            /\ node_data(r.graph, r.index_map, k) = Some(d)
            /\ node_count(r.graph) = node_count(graph) + 1
            /\ edge_count(r.graph) = edge_count(graph)
            /\ r.graph.edges = graph.edges
            /\ SubSeq(r.graph.nodes, 1, Len(graph.nodes)) = graph.nodes
            /\ r.index_map[k] = Len(graph.nodes)
            /\ \A x \in Present \ {k} : r.index_map[x] = index_map[x]
            /\ \A x \in AllKeys :
                 /\ ~contains_edge(r.graph, r.index_map, k, x)
                 /\ ~contains_edge(r.graph, r.index_map, x, k)

\* C23 witness: key k has payload d1 and an edge to another key x and a
\* self-loop; after add_node(k, d2) node_data(k) is Some(d2), both edges
\* are still counted and neither is reported for k.
C23_Witness ==
    \E k \in Present, x \in Present :
        LET r == add_node(graph, index_map, k, "d2")
        IN  /\ k # x
            /\ node_data(graph, index_map, k) = Some("d1")
            /\ contains_edge(graph, index_map, k, x)
            /\ contains_edge(graph, index_map, k, k)
            /\ node_data(r.graph, r.index_map, k) = Some("d2")
            /\ edge_count(r.graph) = 2
            /\ ~contains_edge(r.graph, r.index_map, k, x)
            /\ ~contains_edge(r.graph, r.index_map, k, k)

\* the entries of an adjacency answer whose neighbor is not k
WithoutNeighbor(ans, k) ==
    IF ans.tag = "Some" THEN Some(SelectSeq(ans.val, LAMBDA e : e[1] # k)) ELSE ans

\* C24 (as claimed): for all keys a and b different from k,
\* contains_edge(a, b) has the same value before and after remove_node(k),
\* and get_edges_from(a) after it is get_edges_from(a) before it without
\* the entries whose neighbor was k.
C24_RemoveNodeKeepsOtherEdges ==
    \A k \in AllKeys :
        LET r == remove_node(graph, index_map, k)
        IN  \A a \in AllKeys \ {k} :
              /\ \A b \in AllKeys \ {k} :
                   contains_edge(r.graph, r.index_map, a, b)
                     = contains_edge(graph, index_map, a, b)
              /\ \A o1 \in IterOrders(index_map), o2 \in IterOrders(r.index_map) :
                   get_edges_from(r.graph, r.index_map, o2, a)
                     = WithoutNeighbor(get_edges_from(graph, index_map, o1, a), k)

\* C25 (as claimed): when every key was passed to add_node at most once
\* and every key that was added has been removed by remove_node since,
\* node_count() is 0, edge_count() is 0 and is_empty() is true.
C25_AllRemovedMeansEmpty ==
    (added # {} /\ Present = {}) =>
        /\ node_count(graph) = 0
        /\ edge_count(graph) = 0
        /\ is_empty(graph)

\* C26 (as claimed): for every present start key s, traverse_dfs(s) ends
\* by returning a sequence, and the sequence has at most node_count()
\* elements.
C26_DfsReturnsBoundedSequence ==
    \A s \in Present, order \in IterOrders(index_map) :
        LET r == traverse_dfs(graph, index_map, order, s)
        IN  /\ r.tag = "Some"
            /\ Len(r.val) <= node_count(graph)

\* the keys named in an adjacency answer
NeighborKeys(ans) ==
    IF ans.tag = "Some" THEN {ans.val[i][1] : i \in 1..Len(ans.val)} ELSE {}

\* C27: every key in a sequence returned by traverse_dfs and every
\* neighbor key returned by get_edges_from or get_edges_connected_to_node
\* is a key for which contains_node is true, and a sequence returned by
\* traverse_dfs holds no key twice.
C27_ReturnedKeysArePresent ==
    \A k \in AllKeys, order \in IterOrders(index_map) :
        LET t == traverse_dfs(graph, index_map, order, k)
        IN  /\ t.tag = "Some" =>
                 /\ \A i \in 1..Len(t.val) : contains_node(index_map, t.val[i])
                 /\ Cardinality(Range(t.val)) = Len(t.val)
            /\ \A x \in NeighborKeys(get_edges_from(graph, index_map, order, k)) :
                 contains_node(index_map, x)
            /\ \A x \in NeighborKeys(
                         get_edges_connected_to_node(graph, index_map, order, k)) :
                 contains_node(index_map, x)

\* C27 witness: two present keys on a cycle; the traversal returns both
\* keys, each once, and both adjacency answers name a key.
C27_Witness ==
    \E k \in Present, order \in IterOrders(index_map) :
        LET t == traverse_dfs(graph, index_map, order, k)
        IN  /\ t.tag = "Some"
            /\ Len(t.val) = 2
            /\ t.val[1] # t.val[2]
            /\ contains_edge(graph, index_map, t.val[2], t.val[1])
            /\ NeighborKeys(get_edges_from(graph, index_map, order, k)) # {}
            /\ NeighborKeys(get_edges_connected_to_node(graph, index_map, order, k)) # {}

\* the edges leaving slot idx among edges 1..i, the most recently added
\* first (with no removal the edge index is the order of insertion)
RECURSIVE OutNewestFirst(_, _)
OutNewestFirst(idx, i) ==
    IF i = 0 THEN <<>>
    ELSE IF graph.edges[i].node[1] = idx
    THEN <<i>> \o OutNewestFirst(idx, i - 1)
    ELSE OutNewestFirst(idx, i - 1)

\* the adjacency entries of the edges es seen from slot idx
EntriesOf(es, idx) ==
    [j \in 1..Len(es) |->
        LET e == graph.edges[es[j]]
        IN  <<KeyOf(IF e.node[1] = idx THEN e.node[2] ELSE e.node[1]), e.weight>>]

\* the elements of a set of numbers, the largest first
RECURSIVE Descending(_)
Descending(S) ==
    IF S = {} THEN <<>>
    ELSE LET top == CHOOSE x \in S : \A y \in S : y <= x
         IN  <<top>> \o Descending(S \ {top})

\* ans lists edges at slot idx, each after all the listed ones added later
IsNewestFirst(ans, idx) ==
    \E S \in SUBSET IncidentEdges(idx) :
        /\ Cardinality(S) = Len(ans)
        /\ ans = EntriesOf(Descending(S), idx)

\* the slots slot idx has an edge to, and the first edge to each
Children(idx) ==
    {graph.edges[i].node[2] : i \in
       {j \in 1..Len(graph.edges) : graph.edges[j].node[1] = idx}} \ {idx}
FirstEdgeTo(idx, c) ==
    CHOOSE i \in 1..Len(graph.edges) :
        /\ graph.edges[i].node = <<idx, c>>
        /\ \A j \in 1..(i - 1) : graph.edges[j].node # <<idx, c>>

\* the position of the key of slot c in a traversal
PosOf(seq, c) == CHOOSE i \in 1..Len(seq) : index_map[seq[i]] = c

\* the traversal seq from slot idx visits the children of idx in the order
\* in which their first edges were added
ChildrenInInsertionOrder(seq, idx) ==
    \A c \in Children(idx), d \in Children(idx) :
        FirstEdgeTo(idx, c) < FirstEdgeTo(idx, d) => PosOf(seq, c) < PosOf(seq, d)

ParallelPayloads(n) == SubSeq(<<"p1", "p2", "p3", "p4">>, 1, n)

\* add_edge(a, b, ws[i]) for i = 1..Len(ws), from entry i on
RECURSIVE AddParallel(_, _, _, _, _, _)
AddParallel(g, m, a, b, ws, i) ==
    IF i > Len(ws) THEN [graph |-> g, index_map |-> m, ret |-> Ok]
    ELSE LET r == add_edge(g, m, a, b, ws[i])
         IN  IF r.ret = Ok THEN AddParallel(r.graph, m, a, b, ws, i + 1) ELSE r

\* n successive remove_edge(a, b) calls: the payloads returned, and the
\* graph left
RECURSIVE RemoveParallel(_, _, _, _, _)
RemoveParallel(g, m, a, b, n) ==
    IF n = 0 THEN [graph |-> g, rets |-> <<>>]
    ELSE LET r == remove_edge(g, m, a, b)
             rest == RemoveParallel(r.graph, m, a, b, n - 1)
         IN  [graph |-> rest.graph, rets |-> <<r.ret>> \o rest.rets]

\* the pairs of keys that do not resolve to the slots a and b resolve to
OtherPairs(m, a, b) ==
    {p \in Keys \X Keys :
        ~(/\ contains_node(m, p[1]) /\ contains_node(m, p[2])
          /\ <<m[p[1]], m[p[2]]>> = <<m[a], m[b]>>)}

\* the graphs a caller can get from g by one call that removes or adds an
\* edge between such a pair of keys, or by no call
Interleaved(g, m, a, b) ==
    {g} \cup {remove_edge(g, m, p[1], p[2]).graph : p \in OtherPairs(m, a, b)}
        \cup {add_edge(g, m, p[1], p[2], "w1").graph : p \in OtherPairs(m, a, b)}

\* C29: with n parallel edges added from a to b with payloads p1, ..., pn
\* (and then possibly an add_edge or remove_edge call on a pair of keys
\* that resolves to other slots), n successive
\* remove_edge(a, b) calls return pn, ..., p1, and the call after them
\* returns what remove_edge(a, b) returned before the n edges were added:
\* None when there was no edge from a to b.
C29_ParallelEdgesRemovedLifo ==
    \A a \in Keys, b \in Keys, n \in 1..MaxParallel :
        LET ws == ParallelPayloads(n)
            r1 == AddParallel(graph, index_map, a, b, ws, 1)
        IN  r1.ret = Ok =>
              \A g2 \in Interleaved(r1.graph, index_map, a, b) :
                 LET r3 == RemoveParallel(g2, index_map, a, b, n)
                 IN  /\ r3.rets = [i \in 1..n |-> Some(ws[n + 1 - i])]
                     /\ remove_edge(r3.graph, index_map, a, b).ret
                          = remove_edge(graph, index_map, a, b).ret
                     /\ ~contains_edge(graph, index_map, a, b)
                          => remove_edge(r3.graph, index_map, a, b).ret = None

\* C29 witness: another edge is in the graph and there is none from a to
\* b; after adding p1 and p2 from a to b and removing the other edge, two
\* remove_edge(a, b) calls return p2 then p1 and the third returns None.
C29_Witness ==
    \E a \in Present, b \in Present, x \in Present, y \in Present :
        LET r1 == AddParallel(graph, index_map, a, b, ParallelPayloads(2), 1)
            r2 == remove_edge(r1.graph, index_map, x, y)
            r3 == RemoveParallel(r2.graph, index_map, a, b, 2)
        IN  /\ <<x, y>> # <<a, b>>
            /\ ~contains_edge(graph, index_map, a, b)
            /\ contains_edge(graph, index_map, x, y)
            /\ r1.ret = Ok
            /\ r2.ret.tag = "Some"
            /\ r3.rets = <<Some("p2"), Some("p1")>>
            /\ remove_edge(r3.graph, index_map, a, b).ret = None

\* C30 (as claimed): edges are directed at the key level: for distinct
\* present keys a and b, add_edge(a, b, p1) is accepted, leaves
\* contains_edge(b, a) as it was, and a following remove_edge(b, a) neither
\* returns p1 nor ends contains_edge(a, b); for a present key a,
\* add_edge(a, a, p1) is accepted and makes contains_edge(a, a) true.
C30_EdgesAreDirected ==
    \A a \in Present :
        /\ LET s == add_edge(graph, index_map, a, a, "p1")
           IN  /\ s.ret = Ok
               /\ contains_edge(s.graph, index_map, a, a)
        /\ \A b \in Present \ {a} :
              LET r == add_edge(graph, index_map, a, b, "p1")
                  r2 == remove_edge(r.graph, index_map, b, a)
              IN  /\ r.ret = Ok
                  /\ contains_edge(r.graph, index_map, b, a)
                       = contains_edge(graph, index_map, b, a)
                  /\ r2.ret # Some("p1")
                  /\ contains_edge(r2.graph, index_map, a, b)
====
